---- MODULE Spec2Model ----
(***************************************************************************)
(* to-wchar: conversion between Rust text (str / String, UTF-8 bytes) and  *)
(* null-terminated UTF-16 buffers (Vec<u16> / &[u16]).                     *)
(*                                                                         *)
(* Both operations of src/src/lib.rs are one expression over the standard  *)
(* library's Windows string primitives.  Each primitive is modelled by the *)
(* computation it performs on bytes and code units:                        *)
(*   str            a sequence of bytes, the UTF-8 encoding of its chars   *)
(*   OsStr/OsString a sequence of bytes in WTF-8 (UTF-8 generalised to     *)
(*                  carry unpaired surrogates as three-byte sequences)     *)
(*   Vec<u16>       a sequence of 16-bit code units                        *)
(***************************************************************************)
EXTENDS Integers, Sequences, FiniteSets, TLC

VARIABLES
    chars,   \* the scalar values the caller's text was written with
    text,    \* the caller's str: the UTF-8 bytes of chars
    wchar,   \* the caller's wide buffer, borrowed by from_wchar as &[u16]
    wide,    \* the last to_wchar call: [called, arg, ret]
    result   \* the last from_wchar call: [called, arg, ok, val]

vars == <<chars, text, wchar, wide, result>>

(***************************************************************************)
(* Bounds of the explored inputs.                                          *)
(***************************************************************************)
MaxChars == 3
MaxUnits == 4

(***************************************************************************)
(* Bit arithmetic on unsigned integers.                                    *)
(***************************************************************************)
Shr(x, k) == x \div (2 ^ k)
Shl(x, k) == x * (2 ^ k)
\* x & (2^k - 1)
LowBits(x, k) == x % (2 ^ k)
\* `x as u16`
AsU16(x) == x % 65536
\* `x as u8`
AsU8(x) == x % 256

(***************************************************************************)
(* char::encode_utf8 (core::char::methods::encode_utf8_raw): the bytes of  *)
(* one code point.  The same routine writes a str's chars and, through     *)
(* Wtf8Buf::push_code_point_unchecked, an OsString's code points           *)
(* (surrogates included, as three bytes ED A0..BF 80..BF).                 *)
(***************************************************************************)
LenUtf8(code) ==
    IF code < \h80 THEN 1
    ELSE IF code < \h800 THEN 2
    ELSE IF code < \h10000 THEN 3
    ELSE 4

EncodeUtf8Raw(code) ==
    CASE LenUtf8(code) = 1 -> << AsU8(code) >>
      [] LenUtf8(code) = 2 ->
            << LowBits(Shr(code, 6), 5) + \hC0,
               LowBits(code, 6) + \h80 >>
      [] LenUtf8(code) = 3 ->
            << LowBits(Shr(code, 12), 4) + \hE0,
               LowBits(Shr(code, 6), 6) + \h80,
               LowBits(code, 6) + \h80 >>
      [] OTHER ->
            << LowBits(Shr(code, 18), 3) + \hF0,
               LowBits(Shr(code, 12), 6) + \h80,
               LowBits(Shr(code, 6), 6) + \h80,
               LowBits(code, 6) + \h80 >>

\* A str written with the chars cs: their encodings, in order.
RECURSIVE StrOf(_)
StrOf(cs) ==
    IF cs = << >> THEN << >>
    ELSE EncodeUtf8Raw(Head(cs)) \o StrOf(Tail(cs))

(***************************************************************************)
(* OsStr::encode_wide: Wtf8::code_points decodes the bytes one code point  *)
(* at a time (core::str::next_code_point) and EncodeWide::next emits each  *)
(* as one or two units (char::encode_utf16_raw).                           *)
(***************************************************************************)
\* next_code_point: the code point at the head of bytes and its length.
NextCodePoint(bytes) ==
    LET x == bytes[1] IN
    IF x < 128 THEN [cp |-> x, len |-> 1]
    ELSE
        LET init == LowBits(x, 5)
            y    == LowBits(bytes[2], 6)
        IN  IF x < \hE0 THEN [cp |-> Shl(init, 6) + y, len |-> 2]
            ELSE
                LET z  == LowBits(bytes[3], 6)
                    yz == Shl(y, 6) + z
                IN  IF x < \hF0
                    THEN [cp |-> Shl(init, 12) + yz, len |-> 3]
                    ELSE [cp |-> Shl(LowBits(init, 3), 18) + Shl(yz, 6)
                                    + LowBits(bytes[4], 6),
                          len |-> 4]

\* Mutation of encode_utf16_raw: the code is cast to u16 before the shift,
\* which drops the plane bits of the lead surrogate.
EncodeUtf16Raw_CastFirst(code) ==
    IF LowBits(code, 16) = code
    THEN << AsU16(code) >>
    ELSE LET c == code - \h10000 IN
         << \hD800 + Shr(AsU16(c), 10),
            \hDC00 + LowBits(AsU16(c), 10) >>

\* encode_utf16_raw: the units of one code point.
EncodeUtf16Raw(code) ==
    IF LowBits(code, 16) = code
    THEN << AsU16(code) >>
    ELSE LET c == code - \h10000 IN
         << \hD800 + AsU16(Shr(c, 10)),
            \hDC00 + LowBits(AsU16(c), 10) >>

RECURSIVE EncodeWide(_)
EncodeWide(bytes) ==
    IF bytes = << >> THEN << >>
    ELSE LET n == NextCodePoint(bytes) IN
         EncodeUtf16Raw(n.cp)
            \o EncodeWide(SubSeq(bytes, n.len + 1, Len(bytes)))

\* Mutation of to_wchar: the terminator is not chained.
to_wchar_NoTerminator(self) == EncodeWide(self)

\* Mutation of to_wchar: the text is cut at its first null, as a C string.
to_wchar_CStr(self) ==
    LET u == EncodeWide(self)
        nuls == {i \in 1..Len(u) : u[i] = 0}
        cut == IF nuls = {} THEN Len(u)
               ELSE (CHOOSE i \in nuls : \A j \in nuls : i <= j) - 1
    IN  SubSeq(u, 1, cut) \o << 0 >>

\* impl ToWchar for str: encode_wide().chain(once(0)).collect()
to_wchar(self) == EncodeWide(self) \o << 0 >>

(***************************************************************************)
(* OsString::from_wide (Wtf8Buf::from_wide): char::decode_utf16 pairs the  *)
(* surrogates; a decoded char is pushed as UTF-8, an unpaired surrogate is *)
(* pushed as its own three-byte code point.                                *)
(***************************************************************************)
IsUtf16Surrogate(u) == u >= \hD800 /\ u <= \hDFFF
IsUtf16LowSurrogate(u) == u >= \hDC00 /\ u <= \hDFFF

\* Mutation of DecodeUtf16::next: the unit after a high surrogate is not
\* checked to be a low surrogate.
DecodeUtf16Next_Unchecked(v) ==
    LET u == v[1] IN
    IF ~IsUtf16Surrogate(u) THEN [ok |-> TRUE, code |-> u, used |-> 1]
    ELSE IF u >= \hDC00 THEN [ok |-> FALSE, code |-> u, used |-> 1]
    ELSE IF Len(v) < 2 THEN [ok |-> FALSE, code |-> u, used |-> 1]
    ELSE [ok |-> TRUE,
          code |-> Shl(LowBits(u, 10), 10) + LowBits(v[2], 10) + \h10000,
          used |-> 2]

\* DecodeUtf16::next on the units v: the item and the units it consumed.
\* A high surrogate followed by a unit that is no low surrogate consumes
\* only itself: the second unit is kept in the iterator's buffer.
DecodeUtf16Next(v) ==
    LET u == v[1] IN
    IF ~IsUtf16Surrogate(u) THEN [ok |-> TRUE, code |-> u, used |-> 1]
    ELSE IF u >= \hDC00 THEN [ok |-> FALSE, code |-> u, used |-> 1]
    ELSE IF Len(v) < 2 THEN [ok |-> FALSE, code |-> u, used |-> 1]
    ELSE IF ~IsUtf16LowSurrogate(v[2])
         THEN [ok |-> FALSE, code |-> u, used |-> 1]
    ELSE [ok |-> TRUE,
          code |-> Shl(LowBits(u, 10), 10) + LowBits(v[2], 10) + \h10000,
          used |-> 2]

RECURSIVE FromWide(_)
FromWide(v) ==
    IF v = << >> THEN << >>
    ELSE LET item == DecodeUtf16Next(v) IN
         EncodeUtf8Raw(item.code)
            \o FromWide(SubSeq(v, item.used + 1, Len(v)))

(***************************************************************************)
(* OsString::into_string (Wtf8Buf::into_string): Ok with the same bytes    *)
(* when Wtf8::next_surrogate finds no surrogate, else Err with the         *)
(* OsString handed back unchanged.                                         *)
(***************************************************************************)
\* next_surrogate(pos) /= None: a byte ED followed by a byte >= A0 at a
\* code point boundary.
RECURSIVE HasSurrogate(_)
HasSurrogate(bytes) ==
    IF bytes = << >> THEN FALSE
    ELSE LET b == bytes[1] IN
         IF b < \h80 THEN HasSurrogate(SubSeq(bytes, 2, Len(bytes)))
         ELSE IF b < \hE0 THEN HasSurrogate(SubSeq(bytes, 3, Len(bytes)))
         ELSE IF b = \hED
              THEN IF bytes[2] >= \hA0 THEN TRUE
                   ELSE HasSurrogate(SubSeq(bytes, 4, Len(bytes)))
         ELSE IF b < \hF0 THEN HasSurrogate(SubSeq(bytes, 4, Len(bytes)))
         ELSE HasSurrogate(SubSeq(bytes, 5, Len(bytes)))

\* Mutation of into_string: the conversion never fails (a lossy one).
IntoString_Lossy(os) == [ok |-> TRUE, val |-> os]

IntoString(os) == [ok |-> ~HasSurrogate(os), val |-> os]

(***************************************************************************)
(* str::trim_end_matches(ch): the char at the end of the string is decoded *)
(* backwards (walking over continuation bytes 10xxxxxx) and dropped while  *)
(* it equals ch.                                                           *)
(***************************************************************************)
IsContByte(b) == Shr(b, 6) = 2

\* The number of bytes of the last char of the non-empty str s.
LastCharLen(s) ==
    LET n == Len(s) IN
    IF s[n] < 128 THEN 1
    ELSE IF ~IsContByte(s[n - 1]) THEN 2
    ELSE IF ~IsContByte(s[n - 2]) THEN 3
    ELSE 4

\* Mutation of trim_end_matches: one trailing ch is removed (strip_suffix).
TrimEndMatches_Once(s, ch) ==
    IF s = << >> THEN s
    ELSE LET k == LastCharLen(s)
             last == NextCodePoint(SubSeq(s, Len(s) - k + 1, Len(s)))
         IN  IF last.cp = ch THEN SubSeq(s, 1, Len(s) - k) ELSE s

\* Mutation of trim_end_matches: ch is removed at both ends (trim_matches).
RECURSIVE TrimMatches(_, _)
TrimMatches(s, ch) ==
    IF s = << >> THEN s
    ELSE IF NextCodePoint(s).cp = ch
         THEN TrimMatches(SubSeq(s, NextCodePoint(s).len + 1, Len(s)), ch)
    ELSE LET k == LastCharLen(s)
             last == NextCodePoint(SubSeq(s, Len(s) - k + 1, Len(s)))
         IN  IF last.cp = ch
             THEN TrimMatches(SubSeq(s, 1, Len(s) - k), ch)
             ELSE s

RECURSIVE TrimEndMatches(_, _)
TrimEndMatches(s, ch) ==
    IF s = << >> THEN s
    ELSE LET k == LastCharLen(s)
             last == NextCodePoint(SubSeq(s, Len(s) - k + 1, Len(s)))
         IN  IF last.cp = ch
             THEN TrimEndMatches(SubSeq(s, 1, Len(s) - k), ch)
             ELSE s

\* Mutation of from_wchar: the result of into_string is not trimmed.
from_wchar_NoTrim(w) == IntoString(FromWide(w))

\* Mutation of from_wchar: the OsString is trimmed before into_string, so
\* the Err payload is trimmed too.
from_wchar_TrimFirst(w) == IntoString(TrimEndMatches(FromWide(w), 0))

\* impl FromWchar for String:
\*   OsString::from_wide(wchar).into_string().map(|x| x.trim_end_matches('\0').into())
from_wchar(w) ==
    LET r == IntoString(FromWide(w)) IN
    IF r.ok THEN [ok |-> TRUE, val |-> TrimEndMatches(r.val, 0)]
    ELSE r

(***************************************************************************)
(* The inputs a caller holds.                                              *)
(***************************************************************************)
\* Scalar values texts are written with: NUL, ASCII, a two-byte, a
\* three-byte and a four-byte (surrogate pair) char.
CharAlphabet == {0, \h48, \hE9, \h3042, \h1F600}

\* Code units buffers are filled with: NUL, BMP units, paired and unpaired
\* surrogates of both kinds.
UnitAlphabet == {0, \h48, \h3042, \hD83D, \hDE00, \hD800, \hDC00}

SeqsUpTo(S, n) == UNION {[1..k -> S] : k \in 0..n}

\* The ten-bit halves of the sampled supplementary scalar values.
TenBits == {0, 1, 2, \h3D, \h155, \h1FF, \h200, \h2AA, \h3FE, \h3FF}

\* Scalar values sampled across the range: the borders of the UTF-8 length
\* classes, of the surrogate gap and of the planes.
ScalarSample ==
    {0, 1, \h48, \h7F, \h80, \hFF, \h7FF, \h800, \hFFF, \h1000, \h3042,
     \hD7FF, \hE000, \hFFFD, \hFFFF}
    \cup {\h10000 + hi * \h400 + lo : hi \in TenBits, lo \in TenBits}

HELLO == << \h48, \h45, \h4C, \h4C, \h4F >>

Texts ==
    SeqsUpTo(CharAlphabet, MaxChars)
    \cup {<<c>> : c \in ScalarSample}
    \cup {<<c, 0>> : c \in ScalarSample}
    \cup {HELLO}

Buffers ==
    SeqsUpTo(UnitAlphabet, MaxUnits)
    \cup {HELLO \o <<0>>}
    \cup {<<\hDBFF>>, <<\hDFFF>>, <<\hDBFF, \hDFFF>>, <<\hDBFF, \hDFFF, 0>>,
          <<\hFFFD, 0>>}

NoWide == [called |-> FALSE, arg |-> << >>, ret |-> << >>]
NoResult == [called |-> FALSE, arg |-> << >>, ok |-> FALSE, val |-> << >>]

(***************************************************************************)
(* A caller holds a text to encode or a buffer to decode.                  *)
(***************************************************************************)
Init ==
    /\ \/ chars \in Texts /\ wchar = << >>
       \/ chars = << >> /\ wchar \in Buffers
    /\ text = StrOf(chars)
    /\ wide = NoWide
    /\ result = NoResult

\* let v = text.to_wchar();
ToWcharCall ==
    /\ wide' = [called |-> TRUE, arg |-> text, ret |-> to_wchar(text)]
    /\ UNCHANGED <<chars, text, wchar, result>>

\* let r = String::from_wchar(&wchar);
FromWcharCall ==
    /\ result' = [called |-> TRUE, arg |-> wchar] @@ from_wchar(wchar)
    /\ UNCHANGED <<chars, text, wchar, wide>>

\* The caller borrows the encoder's Vec<u16> as the decoder's &[u16].
PassWide ==
    /\ wide.called
    /\ wchar' = wide.ret
    /\ UNCHANGED <<chars, text, wide, result>>

Next == ToWcharCall \/ FromWcharCall \/ PassWide

Spec == Init /\ [][Next]_vars

(***************************************************************************)
(* Reference definitions the properties are stated with: UTF-16 as the     *)
(* Unicode standard defines it, on scalar values.                          *)
(***************************************************************************)
IsHigh(u) == u \in \hD800..\hDBFF
IsLow(u) == u \in \hDC00..\hDFFF

\* The UTF-16 form of the scalar value c.
RefUnits(c) ==
    IF c < \h10000 THEN << c >>
    ELSE << \hD800 + ((c - \h10000) \div 1024),
            \hDC00 + ((c - \h10000) % 1024) >>

RECURSIVE RefTranscode(_)
RefTranscode(cs) ==
    IF cs = << >> THEN << >> ELSE RefUnits(Head(cs)) \o RefTranscode(Tail(cs))

RECURSIVE RefUtf16Length(_)
RefUtf16Length(cs) ==
    IF cs = << >> THEN 0
    ELSE (IF Head(cs) < \h10000 THEN 1 ELSE 2) + RefUtf16Length(Tail(cs))

\* Every surrogate of b is half of an adjacent (high, low) pair.
WellFormed(b) ==
    \A i \in 1..Len(b) :
        /\ IsHigh(b[i]) => (i < Len(b) /\ IsLow(b[i + 1]))
        /\ IsLow(b[i]) => (i > 1 /\ IsHigh(b[i - 1]))

\* The scalar values of the well-formed units b.
RECURSIVE RefScalars(_)
RefScalars(b) ==
    IF b = << >> THEN << >>
    ELSE IF IsHigh(b[1])
         THEN << \h10000 + (b[1] - \hD800) * 1024 + (b[2] - \hDC00) >>
                \o RefScalars(SubSeq(b, 3, Len(b)))
         ELSE << b[1] >> \o RefScalars(Tail(b))

\* q without its maximal suffix of zeros.
RECURSIVE StripZeros(_)
StripZeros(q) ==
    IF q # << >> /\ q[Len(q)] = 0 THEN StripZeros(SubSeq(q, 1, Len(q) - 1))
    ELSE q

EndsWithZero(q) == q # << >> /\ q[Len(q)] = 0

\* The decoder's result is that of the buffer the encoder returned.
RoundTripped ==
    /\ wide.called
    /\ result.called
    /\ result.arg = wide.ret

(***************************************************************************)
(* C1: to_wchar(T) is the UTF-16 form of T, in order, followed by one zero *)
(* unit: its length is utf16_length(T) + 1, its first utf16_length(T)      *)
(* units are the transcoding of T and its last unit is 0; to_wchar("") is  *)
(* [0] and to_wchar("HELLO") is [48 45 4C 4C 4F 00] (hex).  The call is    *)
(* always possible and returns 16-bit units.                               *)
(***************************************************************************)
C1_EncoderOutput ==
    /\ ENABLED ToWcharCall
    /\ wide.called =>
        LET n == RefUtf16Length(chars) IN
        /\ wide.arg = text
        /\ Len(wide.ret) = n + 1
        /\ SubSeq(wide.ret, 1, n) = RefTranscode(chars)
        /\ wide.ret[n + 1] = 0
        /\ \A i \in 1..Len(wide.ret) : wide.ret[i] \in 0..65535
        /\ chars = << >> => wide.ret = << 0 >>
        /\ chars = HELLO => wide.ret = << \h48, \h45, \h4C, \h4C, \h4F, 0 >>

C1_Witness ==
    /\ wide.called
    /\ chars = << \h48, \h1F600, \h3042 >>
    /\ wide.ret = << \h48, \hD83D, \hDE00, \h3042, 0 >>

(***************************************************************************)
(* C2, as stated: for every text T, from_wchar(to_wchar(T)) = Ok(T).       *)
(***************************************************************************)
C2_RoundTripEveryText ==
    RoundTripped => (result.ok /\ result.val = text)

(***************************************************************************)
(* C2, amended: for every text T that does not end with U+0000,            *)
(* from_wchar(to_wchar(T)) = Ok(T).                                        *)
(***************************************************************************)
C2_RoundTripNoTrailingNul ==
    (RoundTripped /\ ~EndsWithZero(chars)) => (result.ok /\ result.val = text)

C2_Witness ==
    /\ RoundTripped
    /\ chars = << 0, \h48, \h1F600 >>
    /\ result.ok
    /\ result.val = text

(***************************************************************************)
(* C3: for every well-formed buffer B, from_wchar(B) is Ok(S) where S is   *)
(* the text of B's scalar values without their maximal suffix of U+0000:   *)
(* every trailing null is removed, a null followed by a non-null char      *)
(* stays in place, S never ends with U+0000; from_wchar([48 00 00]) is     *)
(* Ok("H") and from_wchar([00]) is Ok("").                                 *)
(***************************************************************************)
C3_DecoderStripsAllTrailingNuls ==
    (result.called /\ WellFormed(result.arg)) =>
        /\ result.ok
        /\ result.val = StrOf(StripZeros(RefScalars(result.arg)))
        /\ ~EndsWithZero(result.val)
        /\ result.arg = << \h48, 0, 0 >> => result.val = << \h48 >>
        /\ result.arg = << 0 >> => result.val = << >>

C3_Witness ==
    /\ result.called
    /\ result.arg = << 0, \h48, 0, 0 >>
    /\ result.ok
    /\ result.val = << 0, \h48 >>

(***************************************************************************)
(* C4: from_wchar(B) is an error exactly when B is not well-formed UTF-16  *)
(* (a high surrogate not directly followed by a low one, or a low one not  *)
(* directly preceded by a high one); no U+FFFD is put in place of a unit;  *)
(* from_wchar([D800]) and from_wchar([DC00]) are errors.                   *)
(***************************************************************************)
C4_ErrorIffIllFormed ==
    result.called =>
        /\ result.ok <=> WellFormed(result.arg)
        /\ (\A i \in 1..Len(result.arg) : result.arg[i] # \hFFFD) =>
              (\A i \in 1..Len(EncodeWide(result.val)) :
                    EncodeWide(result.val)[i] # \hFFFD)
        /\ result.arg \in {<< \hD800 >>, << \hDC00 >>} => ~result.ok

C4_Witness ==
    /\ result.called
    /\ result.arg = << \hD83D, \hDE00, \hD83D, 0 >>
    /\ ~result.ok

(***************************************************************************)
(* C5, as stated: every buffer to_wchar returns is non-empty, its last     *)
(* unit is 0 and the unit before it, if any, is not 0.                     *)
(***************************************************************************)
C5_ExactlyOneTrailingZero ==
    wide.called =>
        /\ wide.ret # << >>
        /\ wide.ret[Len(wide.ret)] = 0
        /\ Len(wide.ret) >= 2 => wide.ret[Len(wide.ret) - 1] # 0

(***************************************************************************)
(* C5, amended: every buffer to_wchar returns is non-empty and its last    *)
(* unit is 0; the unit before it, if any, is 0 exactly when T itself ends  *)
(* with U+0000.                                                            *)
(***************************************************************************)
C5_TerminatorAppended ==
    wide.called =>
        /\ wide.ret # << >>
        /\ wide.ret[Len(wide.ret)] = 0
        /\ Len(wide.ret) >= 2 =>
              (wide.ret[Len(wide.ret) - 1] = 0 <=> EndsWithZero(chars))

C5_Witness ==
    /\ wide.called
    /\ chars = << \h1F600, 0 >>
    /\ wide.ret = << \hD83D, \hDE00, 0, 0 >>

(***************************************************************************)
(* C6: for a one-char text c, to_wchar is [c, 0] when c < U+10000 and      *)
(* [D800 + ((c - 10000) >> 10), DC00 + ((c - 10000) & 3FF), 0] otherwise;  *)
(* every unit fits in 16 bits; from_wchar of the three-unit buffer is Ok   *)
(* of the one-char text c.                                                 *)
(***************************************************************************)
C6_SurrogatePairArithmetic ==
    Len(chars) = 1 =>
        LET c == chars[1]
            pair == << \hD800 + Shr(c - \h10000, 10),
                       \hDC00 + LowBits(c - \h10000, 10), 0 >>
        IN  /\ wide.called =>
                /\ wide.ret = (IF c < \h10000 THEN << c, 0 >> ELSE pair)
                /\ \A i \in 1..Len(wide.ret) : wide.ret[i] \in 0..65535
            /\ (c >= \h10000 /\ result.called /\ result.arg = pair) =>
                (result.ok /\ result.val = text)

C6_Witness ==
    /\ chars = << \h10FFFF >>
    /\ RoundTripped
    /\ wide.ret = << \hDBFF, \hDFFF, 0 >>
    /\ result.ok
    /\ result.val = << \hF4, \h8F, \hBF, \hBF >>

(***************************************************************************)
(* C7: when from_wchar(B) fails, the Err payload is the OsString of B: its *)
(* code units are exactly B, trailing zero units included.                 *)
(***************************************************************************)
C7_ErrCarriesRawInput ==
    (result.called /\ ~result.ok) => EncodeWide(result.val) = result.arg

C7_Witness ==
    /\ result.called
    /\ ~result.ok
    /\ result.arg = << \h48, \hDC00, 0, 0 >>
    /\ EncodeWide(result.val) = << \h48, \hDC00, 0, 0 >>

(***************************************************************************)
(* C9: from_wchar(to_wchar(T)) is Ok(T') where T' is T without its         *)
(* trailing U+0000 chars; the round trip returns T exactly when T does not *)
(* end with U+0000.                                                        *)
(***************************************************************************)
C9_RoundTripStripsTrailingNuls ==
    RoundTripped =>
        /\ result.ok
        /\ result.val = StrOf(StripZeros(chars))
        /\ result.val = text <=> ~EndsWithZero(chars)

C9_Witness ==
    /\ RoundTripped
    /\ chars = << \h48, 0, 0 >>
    /\ result.ok
    /\ result.val = << \h48 >>

(***************************************************************************)
(* C10: a decoder that strips the trailing zero units of B before it       *)
(* validates and transcodes agrees with from_wchar, which transcodes all   *)
(* of B and then strips the trailing null chars: on Ok or error, and on    *)
(* the Ok text; appending or removing trailing zero units changes neither. *)
(***************************************************************************)
TrimThenDecode(b) == IntoString(FromWide(StripZeros(b)))

C10_TrimOrderIrrelevant ==
    result.called =>
        LET alt == TrimThenDecode(result.arg) IN
        /\ alt.ok <=> result.ok
        /\ result.ok => alt.val = result.val
        /\ from_wchar(result.arg \o << 0 >>).ok <=> result.ok
        /\ from_wchar(StripZeros(result.arg)).ok <=> result.ok
        /\ result.ok => from_wchar(result.arg \o << 0 >>).val = result.val

C10_Witness ==
    /\ result.called
    /\ result.arg = << \hD800, 0, 0 >>
    /\ ~result.ok
    /\ ~TrimThenDecode(result.arg).ok

====
